---- MODULE Spec2Model ----
(***************************************************************************)
(* The GitHub gateway of src/index.js: five repository operations exposed  *)
(* through REST endpoints and through POST /execute, the discovery         *)
(* endpoints (/metadata, /.well-known/ai-plugin.json, /sse) and the        *)
(* keep-alive timer of /sse.  src/unnamed/part_000 is the minimal          *)
(* front-end: its /sse and /execute handlers are line for line those of    *)
(* src/index.js (lines 304-556 there, 39-291 here).                        *)
(*                                                                         *)
(* The upstream service (octokit) is the environment.  It is modelled as   *)
(* a small git store: branch heads, commits (each a tree of files), pull   *)
(* requests.  Every upstream call may also fail for a reason of its own    *)
(* (transport, rate limit, server error): a nondeterministic fault.        *)
(***************************************************************************)
EXTENDS Integers, Sequences, FiniteSets, TLC

(* ------------------------------ bounds -------------------------------- *)

\* Requests the gateway receives in one run.
MaxReq == 2
\* Upstream calls that fail for a reason of their own in one run.
MaxFaults == 1
\* Writes other clients make directly on the upstream in one run.
MaxExternalWrites == 1
\* /sse connections opened in one run.
MaxConn == 2
\* The time a run covers, in units of 1000 ms.
MaxClock == 70
\* The time between two looks at the clock, in units of 1000 ms.
TickStep == 10

(* --------------------------- value universe --------------------------- *)

\* A JavaScript undefined: a missing argument, an unassigned `let`.
Undefined == "undefined"

\* `x || y` on strings: the empty string and undefined are falsy.
Falsy(x) == x = Undefined \/ x = ""

OrElse(x, y) == IF Falsy(x) THEN y ELSE x

OWNER == "octo"

REPO == "hello"

BranchNames == {"main", "dev"}

FilePath == "README.md"

DirPath == "docs"

Contents == {"A", "B"}

RecognizedTools == {"list_repositories", "get_file", "create_or_update_file",
                    "create_branch", "create_pull_request"}

UnknownTools == {"not_a_real_tool", Undefined}

(* Buffer.from(content).toString('base64') on the contents of the model. *)
Base64Encode(c) ==
  CASE c = "A" -> "QQ=="
    [] c = "B" -> "Qg=="
    [] OTHER -> ""

(* Buffer.from(b64, 'base64').toString('utf-8') on the same domain. *)
Base64Decode(b) ==
  CASE b = "QQ==" -> "A"
    [] b = "Qg==" -> "B"
    [] OTHER -> ""

(* The TypeError message of reading a property of an undefined `args`. *)
TypeErrorReading(prop) ==
  "Cannot read properties of undefined (reading '" \o prop \o "')"

(* The TypeError message of Buffer.from(undefined). *)
BufferFromTypeError ==
  "The first argument must be of type string or an instance of Buffer, "
    \o "ArrayBuffer, or Array or an Array-like Object. Received undefined"

VARIABLES
  defaultBranch,   \* upstream: the repository's configured default branch
  refs,            \* upstream: branch name -> index of its head commit
  commits,         \* upstream: sequence of commits, each a tree path -> content
  pulls,           \* upstream: sequence of pull requests [head, base]
  writes,          \* history: number of file writes the upstream has accepted
  faults,          \* environment: upstream faults so far
  extWrites,       \* environment: writes by other clients so far
  req,             \* the gateway's requests, in arrival order
  discovery,       \* responses of GET /metadata and the plugin manifest
  conns,           \* the /sse connections
  clock,           \* time, in units of 1000 ms
  GITHUB_TOKEN,    \* process.env.GITHUB_TOKEN
  octokit,         \* the upstream client, once created
  main             \* where the module's top-level code stands

vars == <<defaultBranch, refs, commits, pulls, writes, faults, extWrites, req,
          discovery, conns, clock, GITHUB_TOKEN, octokit, main>>

procVars == <<GITHUB_TOKEN, octokit, main>>

upstreamVars == <<defaultBranch, refs, commits, pulls, writes>>

repoVars == <<defaultBranch, refs, commits, pulls, writes, faults, extWrites, req>>

sseVars == <<discovery, conns, clock>>

(* ------------------- the upstream service (octokit) ------------------- *)

\* No file at a path of a tree.
Absent == "<absent>"

\* The blob sha of a file: content-addressed, one per content.
BlobSha(c) == "blob-" \o c

\* The sha of the commit stored at index i.
CommitSha(i) == "commit-" \o ToString(i)

\* A rejected upstream call: octokit throws a RequestError with this message.
Failure(code, msg) == [ok |-> FALSE, status |-> code, message |-> msg]

\* An upstream call that fails for a reason of its own.
Fault == Failure(500, "Server Error")

FaultChoices == IF faults < MaxFaults THEN {FALSE, TRUE} ELSE {FALSE}

\* The branch an optional ref/branch parameter names.
RefOf(ref) == IF ref = Undefined THEN defaultBranch ELSE ref

HasBranch(b) == b \in DOMAIN refs

TreeOf(b) == commits[refs[b]]

\* The blob sha stored at path on the branch, Undefined when no file is there.
StoredSha(path, ref) ==
  IF HasBranch(RefOf(ref)) /\ path = FilePath /\ TreeOf(RefOf(ref))[path] # Absent
  THEN BlobSha(TreeOf(RefOf(ref))[path])
  ELSE Undefined

\* GET /repos/{owner}/{repo}/contents/{path}?ref=
UpGetContent(path, ref) ==
  LET b == RefOf(ref) IN
  IF ~HasBranch(b) THEN Failure(404, "No commit found for the ref " \o b)
  ELSE IF path = DirPath
  THEN [ok |-> TRUE, isArray |-> TRUE, entries |-> <<"docs/guide.md">>]
  ELSE IF StoredSha(path, ref) # Undefined
  THEN [ok |-> TRUE, isArray |-> FALSE,
        content |-> Base64Encode(TreeOf(b)[path]),
        sha |-> BlobSha(TreeOf(b)[path]), size |-> 1, path |-> path]
  ELSE Failure(404, "Not Found")

\* `data.sha` of a getContent response: an array has no such property.
DataSha(res) == IF res.isArray THEN Undefined ELSE res.sha

\* PUT /repos/{owner}/{repo}/contents/{path}: the upstream's answer.
UpPutContent(path, branch, b64, sha) ==
  LET b == RefOf(branch) IN
  IF ~HasBranch(b) THEN Failure(404, "Branch " \o b \o " not found")
  ELSE IF path = DirPath THEN Failure(422, "Invalid request. path is a directory")
  ELSE IF StoredSha(path, branch) # Undefined /\ sha = Undefined
  THEN Failure(422, "Invalid request. sha wasn't supplied.")
  ELSE IF StoredSha(path, branch) # sha
  THEN Failure(409, path \o " does not match " \o sha)
  ELSE [ok |-> TRUE,
        commit |-> [sha |-> CommitSha(Len(commits) + 1)],
        content |-> [path |-> path, sha |-> BlobSha(Base64Decode(b64))]]

\* The store after an accepted PUT: a new commit on the branch.
PutCommits(path, branch, b64) ==
  Append(commits, [TreeOf(RefOf(branch)) EXCEPT ![path] = Base64Decode(b64)])

PutRefs(branch) == [refs EXCEPT ![RefOf(branch)] = Len(commits) + 1]

\* GET /repos/{owner}/{repo}
UpGetRepo ==
  [ok |-> TRUE, name |-> REPO, full_name |-> OWNER \o "/" \o REPO,
   owner |-> [login |-> OWNER], private |-> FALSE, description |-> "demo",
   html_url |-> "https://github.com/" \o OWNER \o "/" \o REPO,
   default_branch |-> defaultBranch, fork |-> FALSE]

\* GET /user/repos?visibility=&sort=updated&per_page=100
UpListRepos(visibility) ==
  [ok |-> TRUE,
   data |-> IF visibility \in {"all", "public"} THEN <<UpGetRepo>> ELSE <<>>]

\* GET /repos/{owner}/{repo}/git/ref/{ref}
UpGetRef(ref) ==
  IF \E b \in DOMAIN refs : ref = "heads/" \o b
  THEN LET b == CHOOSE b \in DOMAIN refs : ref = "heads/" \o b
       IN [ok |-> TRUE, ref |-> "refs/" \o ref,
           object |-> [sha |-> CommitSha(refs[b])]]
  ELSE Failure(404, "Not Found")

\* The branch a full ref names, and the commit a sha names.
BranchOfRef(ref) == {b \in BranchNames : ref = "refs/heads/" \o b}

CommitOfSha(sha) == {i \in 1..Len(commits) : sha = CommitSha(i)}

\* POST /repos/{owner}/{repo}/git/refs
UpCreateRef(ref, sha) ==
  IF BranchOfRef(ref) = {} THEN Failure(422, "Reference name is invalid")
  ELSE IF \E b \in BranchOfRef(ref) : HasBranch(b)
  THEN Failure(422, "Reference already exists")
  ELSE IF CommitOfSha(sha) = {} THEN Failure(422, "Object does not exist")
  ELSE [ok |-> TRUE, ref |-> ref, object |-> [sha |-> sha]]

CreateRefRefs(ref, sha) ==
  LET b == CHOOSE b \in BranchOfRef(ref) : TRUE
      i == CHOOSE i \in CommitOfSha(sha) : TRUE
  IN (b :> i) @@ refs

\* POST /repos/{owner}/{repo}/pulls
UpCreatePull(title, body, head, base) ==
  IF ~(HasBranch(head) /\ HasBranch(base)) \/ title = Undefined
  THEN Failure(422, "Validation Failed")
  ELSE IF refs[head] = refs[base]
  THEN Failure(422, "No commits between " \o base \o " and " \o head)
  ELSE IF \E i \in 1..Len(pulls) : pulls[i] = [head |-> head, base |-> base]
  THEN Failure(422, "A pull request already exists")
  ELSE [ok |-> TRUE, number |-> Len(pulls) + 1,
        html_url |-> "https://github.com/" \o OWNER \o "/" \o REPO
                     \o "/pull/" \o ToString(Len(pulls) + 1),
        state |-> "open"]

(* ----------------------------- requests ------------------------------- *)

\* The arguments of a request, every one of them missing.
NoArgs ==
  [visibility |-> Undefined, path |-> Undefined, branch |-> Undefined,
   content |-> Undefined, message |-> Undefined, from_branch |-> Undefined,
   title |-> Undefined, body |-> Undefined, head |-> Undefined,
   base |-> Undefined]

\* The inputs the requests are drawn from.
Visibilities == {Undefined, "private"}

Paths == {FilePath, DirPath}

FileBranches == {Undefined, "dev"}

FromBranches == {Undefined, "", "main"}

PullBodies == {Undefined}

\* A request on entry to its handler: the handler's locals are unassigned.
NewReq(adapter, tool, hasArgs, a) ==
  [adapter |-> adapter, tool |-> tool, hasArgs |-> hasArgs, args |-> a,
   pc |-> "start", sha |-> Undefined, fromBranch |-> Undefined,
   refSha |-> Undefined, status |-> 0, body |-> [pending |-> TRUE],
   calls |-> <<>>]

\* One upstream call as the request issued it: what was sent, what came back,
\* and (history) the revision stored at the path and the number of accepted
\* writes when the upstream served it.
Call(op, sent, res) ==
  [op |-> op, sent |-> sent, res |-> res, epoch |-> writes,
   stored |-> IF op = "getContent" THEN StoredSha(sent.path, sent.ref)
              ELSE IF op = "createOrUpdateFileContents"
              THEN StoredSha(sent.path, sent.branch)
              ELSE Undefined]

Called(q, call) == [q EXCEPT !.calls = Append(@, call)]

\* res.status(s).json(b): the response is sent and the handler is over.
Reply(q, s, b) == [q EXCEPT !.pc = "done", !.status = s, !.body = b]

FaultsAfter(fault) == IF fault THEN faults + 1 ELSE faults

(* ------------------------------- startup ------------------------------ *)

\* The values process.env.GITHUB_TOKEN may have when the process starts.
Tokens == {Undefined, "", "ghp_token"}

\* Without the process.exit(1).
ValidateEnvironment_NoExit ==
  /\ main = "validate"
  /\ main' = "client"
  /\ UNCHANGED <<repoVars, sseVars, GITHUB_TOKEN, octokit>>

\* if (!GITHUB_TOKEN) { console.error(...); process.exit(1); }
ValidateEnvironment ==
  /\ main = "validate"
  /\ main' = IF Falsy(GITHUB_TOKEN) THEN "exited" ELSE "client"
  /\ UNCHANGED <<repoVars, sseVars, GITHUB_TOKEN, octokit>>

\* const octokit = new Octokit({ auth: GITHUB_TOKEN })
CreateClient ==
  /\ main = "client"
  /\ octokit' = [auth |-> GITHUB_TOKEN]
  /\ main' = "listen"
  /\ UNCHANGED <<repoVars, sseVars, GITHUB_TOKEN>>

\* The routes are registered and app.listen(PORT) binds the port.
Listen ==
  /\ main = "listen"
  /\ main' = "listening"
  /\ UNCHANGED <<repoVars, sseVars, GITHUB_TOKEN, octokit>>

(* --------------------------- the REST adapter ------------------------- *)

\* GET /repos?visibility=
RestListRepositories ==
  /\ main = "listening"
  /\ Len(req) < MaxReq
  /\ \E visibility \in Visibilities, fault \in FaultChoices :
       LET sent == [visibility |-> OrElse(visibility, "all"), sort |-> "updated",
                    per_page |-> 100]
           repos == IF fault THEN Fault ELSE UpListRepos(sent.visibility)
           q == Called(NewReq("rest", "list_repositories", TRUE,
                              [NoArgs EXCEPT !.visibility = visibility]),
                       Call("listForAuthenticatedUser", sent, repos))
       IN /\ req' = Append(req,
               IF repos.ok
               THEN Reply(q, 200,
                      [items |-> [i \in 1..Len(repos.data) |->
                         [name |-> repos.data[i].name,
                          full_name |-> repos.data[i].full_name,
                          owner |-> repos.data[i].owner.login,
                          private |-> repos.data[i].private,
                          description |-> repos.data[i].description,
                          url |-> repos.data[i].html_url,
                          default_branch |-> repos.data[i].default_branch]]])
               ELSE Reply(q, 500, [error |-> repos.message]))
          /\ faults' = FaultsAfter(fault)
  /\ UNCHANGED <<upstreamVars, extWrites, sseVars, procVars>>

\* GET /repos/:owner/:repo/contents/*
RestGetFile ==
  /\ main = "listening"
  /\ Len(req) < MaxReq
  /\ \E path \in Paths, branch \in FileBranches, fault \in FaultChoices :
       LET sent == [path |-> path, ref |-> branch]
           file == IF fault THEN Fault ELSE UpGetContent(path, branch)
           q == Called(NewReq("rest", "get_file", TRUE,
                              [NoArgs EXCEPT !.path = path, !.branch = branch]),
                       Call("getContent", sent, file))
       IN /\ req' = Append(req,
               IF ~file.ok THEN Reply(q, 500, [error |-> file.message])
               ELSE IF file.isArray
               THEN Reply(q, 400, [error |-> "Path is a directory"])
               ELSE Reply(q, 200,
                      [content |-> Base64Decode(file.content), sha |-> file.sha,
                       size |-> file.size, path |-> file.path]))
          /\ faults' = FaultsAfter(fault)
  /\ UNCHANGED <<upstreamVars, extWrites, sseVars, procVars>>

\* PUT /repos/:owner/:repo/contents/*: the existence read; any failure of it
\* is swallowed and leaves `sha` unassigned.
RestPutFileRead ==
  /\ main = "listening"
  /\ Len(req) < MaxReq
  /\ \E path \in Paths, branch \in FileBranches, content \in Contents,
        fault \in FaultChoices :
       LET sent == [path |-> path, ref |-> branch]
           existing == IF fault THEN Fault ELSE UpGetContent(path, branch)
           q == Called(NewReq("rest", "create_or_update_file", TRUE,
                              [NoArgs EXCEPT !.path = path, !.branch = branch,
                                             !.content = content,
                                             !.message = "update"]),
                       Call("getContent", sent, existing))
       IN /\ req' = Append(req,
               [q EXCEPT !.pc = "write",
                         !.sha = IF existing.ok THEN DataSha(existing)
                                 ELSE Undefined])
          /\ faults' = FaultsAfter(fault)
  /\ UNCHANGED <<upstreamVars, extWrites, sseVars, procVars>>

\* PUT /repos/:owner/:repo/contents/* with a JSON body that has no fields:
\* content, message and branch are undefined.  The existence read is issued
\* as for any other body.
RestPutFileNoContent ==
  /\ main = "listening"
  /\ Len(req) < MaxReq
  /\ \E path \in Paths, fault \in FaultChoices :
       LET sent == [path |-> path, ref |-> Undefined]
           existing == IF fault THEN Fault ELSE UpGetContent(path, Undefined)
           q == Called(NewReq("rest", "create_or_update_file", FALSE,
                              [NoArgs EXCEPT !.path = path]),
                       Call("getContent", sent, existing))
       IN /\ req' = Append(req,
               [q EXCEPT !.pc = "write",
                         !.sha = IF existing.ok THEN DataSha(existing)
                                 ELSE Undefined])
          /\ faults' = FaultsAfter(fault)
  /\ UNCHANGED <<upstreamVars, extWrites, sseVars, procVars>>

\* RestPutSent with the token read again at the time of the write.
RestPutSent_Reread(q) ==
  [path |-> q.args.path, message |-> q.args.message,
   content |-> Base64Encode(q.args.content), branch |-> q.args.branch,
   sha |-> StoredSha(q.args.path, q.args.branch)]

\* PUT /repos/:owner/:repo/contents/*: what the write sends.
RestPutSent(q) ==
  [path |-> q.args.path, message |-> q.args.message,
   content |-> Base64Encode(q.args.content), branch |-> q.args.branch,
   sha |-> q.sha]

\* PUT /repos/:owner/:repo/contents/*: the write, and the response.  Building
\* the write's arguments throws when content is undefined: the write is not
\* issued and the handler's catch answers.
RestPutFileWrite(r) ==
  /\ req[r].adapter = "rest" /\ req[r].pc = "write"
  /\ IF req[r].args.content = Undefined
     THEN /\ req' = [req EXCEPT ![r] =
                       Reply(req[r], 500, [error |-> BufferFromTypeError])]
          /\ UNCHANGED <<commits, refs, writes, faults>>
     ELSE \E fault \in FaultChoices :
       LET sent == RestPutSent(req[r])
           response == IF fault THEN Fault
                       ELSE UpPutContent(sent.path, sent.branch, sent.content,
                                         sent.sha)
           q == Called(req[r], Call("createOrUpdateFileContents", sent, response))
       IN /\ req' = [req EXCEPT ![r] =
               IF response.ok
               THEN Reply(q, 200, [success |-> TRUE,
                                   commit |-> response.commit.sha,
                                   content |-> response.content])
               ELSE Reply(q, 500, [error |-> response.message])]
          /\ faults' = FaultsAfter(fault)
          /\ IF response.ok
             THEN /\ commits' = PutCommits(sent.path, sent.branch, sent.content)
                  /\ refs' = PutRefs(sent.branch)
                  /\ writes' = writes + 1
             ELSE UNCHANGED <<commits, refs, writes>>
  /\ UNCHANGED <<defaultBranch, pulls, extWrites, sseVars, procVars>>

\* const fromBranch = from_branch || repoData.data.default_branch
RestSourceBranch(from_branch, repoData) ==
  OrElse(from_branch, repoData.default_branch)

\* POST /repos/:owner/:repo/branches: the repository read.
RestCreateBranchGetRepo ==
  /\ main = "listening"
  /\ Len(req) < MaxReq
  /\ \E branch \in BranchNames, from_branch \in FromBranches,
        fault \in FaultChoices :
       LET repoData == IF fault THEN Fault ELSE UpGetRepo
           q == Called(NewReq("rest", "create_branch", TRUE,
                              [NoArgs EXCEPT !.branch = branch,
                                             !.from_branch = from_branch]),
                       Call("get", [owner |-> OWNER, repo |-> REPO], repoData))
       IN /\ req' = Append(req,
               IF repoData.ok
               THEN [q EXCEPT !.pc = "getRef",
                              !.fromBranch = RestSourceBranch(from_branch,
                                                              repoData)]
               ELSE Reply(q, 500, [error |-> repoData.message]))
          /\ faults' = FaultsAfter(fault)
  /\ UNCHANGED <<upstreamVars, extWrites, sseVars, procVars>>

\* POST /repos/:owner/:repo/branches: the read of the source branch's head.
RestCreateBranchGetRef(r) ==
  /\ req[r].adapter = "rest" /\ req[r].pc = "getRef"
  /\ \E fault \in FaultChoices :
       LET sent == [ref |-> "heads/" \o req[r].fromBranch]
           ref == IF fault THEN Fault ELSE UpGetRef(sent.ref)
           q == Called(req[r], Call("getRef", sent, ref))
       IN /\ req' = [req EXCEPT ![r] =
               IF ref.ok
               THEN [q EXCEPT !.pc = "createRef", !.refSha = ref.object.sha]
               ELSE Reply(q, 500, [error |-> ref.message])]
          /\ faults' = FaultsAfter(fault)
  /\ UNCHANGED <<upstreamVars, extWrites, sseVars, procVars>>

\* POST /repos/:owner/:repo/branches: the creation of the ref, and the response.
RestCreateBranchCreateRef(r) ==
  /\ req[r].adapter = "rest" /\ req[r].pc = "createRef"
  /\ \E fault \in FaultChoices :
       LET sent == [ref |-> "refs/heads/" \o req[r].args.branch,
                    sha |-> req[r].refSha]
           newBranch == IF fault THEN Fault ELSE UpCreateRef(sent.ref, sent.sha)
           q == Called(req[r], Call("createRef", sent, newBranch))
       IN /\ req' = [req EXCEPT ![r] =
               IF newBranch.ok
               THEN Reply(q, 200, [success |-> TRUE,
                                   branch |-> req[r].args.branch,
                                   sha |-> newBranch.object.sha])
               ELSE Reply(q, 500, [error |-> newBranch.message])]
          /\ faults' = FaultsAfter(fault)
          /\ refs' = IF newBranch.ok THEN CreateRefRefs(sent.ref, sent.sha)
                     ELSE refs
  /\ UNCHANGED <<defaultBranch, commits, pulls, writes, extWrites, sseVars, procVars>>

\* POST /repos/:owner/:repo/pulls
RestCreatePullRequest ==
  /\ main = "listening"
  /\ Len(req) < MaxReq
  /\ \E head \in BranchNames, base \in BranchNames, body \in PullBodies,
        fault \in FaultChoices :
       LET sent == [title |-> "change", body |-> OrElse(body, ""),
                    head |-> head, base |-> base]
           pr == IF fault THEN Fault
                 ELSE UpCreatePull(sent.title, sent.body, sent.head, sent.base)
           q == Called(NewReq("rest", "create_pull_request", TRUE,
                              [NoArgs EXCEPT !.title = "change", !.body = body,
                                             !.head = head, !.base = base]),
                       Call("create", sent, pr))
       IN /\ req' = Append(req,
               IF pr.ok
               THEN Reply(q, 200, [success |-> TRUE, number |-> pr.number,
                                   url |-> pr.html_url, state |-> pr.state])
               ELSE Reply(q, 500, [error |-> pr.message]))
          /\ faults' = FaultsAfter(fault)
          /\ pulls' = IF pr.ok THEN Append(pulls, [head |-> head, base |-> base])
                      ELSE pulls
  /\ UNCHANGED <<defaultBranch, refs, commits, writes, extWrites, sseVars, procVars>>

(* ------------------- the tool-invocation adapter ---------------------- *)

\* POST /execute, case 'list_repositories': no try of its own, so a throw
\* reaches the handler's outer catch.
ExecListRepositories ==
  /\ main = "listening"
  /\ Len(req) < MaxReq
  /\ \E visibility \in Visibilities, fault \in FaultChoices :
       LET sent == [visibility |-> OrElse(visibility, "all"), sort |-> "updated",
                    per_page |-> 100]
           repos == IF fault THEN Fault ELSE UpListRepos(sent.visibility)
           q == Called(NewReq("execute", "list_repositories", TRUE,
                              [NoArgs EXCEPT !.visibility = visibility]),
                       Call("listForAuthenticatedUser", sent, repos))
       IN /\ req' = Append(req,
               IF repos.ok
               THEN Reply(q, 200, [result |->
                      [items |-> [i \in 1..Len(repos.data) |->
                         [name |-> repos.data[i].name,
                          full_name |-> repos.data[i].full_name,
                          owner |-> repos.data[i].owner.login,
                          private |-> repos.data[i].private,
                          description |-> repos.data[i].description,
                          url |-> repos.data[i].html_url,
                          default_branch |-> repos.data[i].default_branch]]]])
               ELSE Reply(q, 500, [error |-> repos.message]))
          /\ faults' = FaultsAfter(fault)
  /\ UNCHANGED <<upstreamVars, extWrites, sseVars, procVars>>

\* POST /execute, case 'get_file'
ExecGetFile ==
  /\ main = "listening"
  /\ Len(req) < MaxReq
  /\ \E path \in Paths, branch \in FileBranches, fault \in FaultChoices :
       LET sent == [path |-> path, ref |-> branch]
           file == IF fault THEN Fault ELSE UpGetContent(path, branch)
           q == Called(NewReq("execute", "get_file", TRUE,
                              [NoArgs EXCEPT !.path = path, !.branch = branch]),
                       Call("getContent", sent, file))
       IN /\ req' = Append(req,
               IF ~file.ok
               THEN Reply(q, 200, [result |-> [error |-> file.message]])
               ELSE IF file.isArray
               THEN Reply(q, 200, [result |->
                      [error |-> "Path is a directory, not a file"]])
               ELSE Reply(q, 200, [result |->
                      [content |-> Base64Decode(file.content), sha |-> file.sha,
                       size |-> file.size, path |-> file.path]]))
          /\ faults' = FaultsAfter(fault)
  /\ UNCHANGED <<upstreamVars, extWrites, sseVars, procVars>>

\* ExecPutFileRead with the failure of the existence read reported instead of
\* swallowed.
ExecPutFileRead_Propagates ==
  /\ main = "listening"
  /\ Len(req) < MaxReq
  /\ \E path \in Paths, branch \in FileBranches, content \in Contents,
        fault \in FaultChoices :
       LET sent == [path |-> path, ref |-> branch]
           existing == IF fault THEN Fault ELSE UpGetContent(path, branch)
           q == Called(NewReq("execute", "create_or_update_file", TRUE,
                              [NoArgs EXCEPT !.path = path, !.branch = branch,
                                             !.content = content,
                                             !.message = "update"]),
                       Call("getContent", sent, existing))
       IN /\ req' = Append(req,
               IF existing.ok
               THEN [q EXCEPT !.pc = "write", !.sha = DataSha(existing)]
               ELSE Reply(q, 200, [result |-> [error |-> existing.message]]))
          /\ faults' = FaultsAfter(fault)
  /\ UNCHANGED <<upstreamVars, extWrites, sseVars, procVars>>

\* POST /execute, case 'create_or_update_file': the existence read; any
\* failure of it is swallowed and leaves `sha` unassigned.
ExecPutFileRead ==
  /\ main = "listening"
  /\ Len(req) < MaxReq
  /\ \E path \in Paths, branch \in FileBranches, content \in Contents,
        fault \in FaultChoices :
       LET sent == [path |-> path, ref |-> branch]
           existing == IF fault THEN Fault ELSE UpGetContent(path, branch)
           q == Called(NewReq("execute", "create_or_update_file", TRUE,
                              [NoArgs EXCEPT !.path = path, !.branch = branch,
                                             !.content = content,
                                             !.message = "update"]),
                       Call("getContent", sent, existing))
       IN /\ req' = Append(req,
               [q EXCEPT !.pc = "write",
                         !.sha = IF existing.ok THEN DataSha(existing)
                                 ELSE Undefined])
          /\ faults' = FaultsAfter(fault)
  /\ UNCHANGED <<upstreamVars, extWrites, sseVars, procVars>>

\* ExecPutSent with the revision token left out of the write.
ExecPutSent_NoSha(q) ==
  [path |-> q.args.path, message |-> q.args.message,
   content |-> Base64Encode(q.args.content), branch |-> q.args.branch,
   sha |-> Undefined]

\* ExecPutSent with the token read again at the time of the write, as a
\* handler that retries with a fresh token until the write goes through.
ExecPutSent_Reread(q) ==
  [path |-> q.args.path, message |-> q.args.message,
   content |-> Base64Encode(q.args.content), branch |-> q.args.branch,
   sha |-> StoredSha(q.args.path, q.args.branch)]

\* POST /execute, case 'create_or_update_file': what the write sends.
ExecPutSent(q) ==
  [path |-> q.args.path, message |-> q.args.message,
   content |-> Base64Encode(q.args.content), branch |-> q.args.branch,
   sha |-> q.sha]

\* POST /execute, case 'create_or_update_file': the write, and the response.
ExecPutFileWrite(r) ==
  /\ req[r].adapter = "execute" /\ req[r].pc = "write"
  /\ \E fault \in FaultChoices :
       LET sent == ExecPutSent(req[r])
           response == IF fault THEN Fault
                       ELSE UpPutContent(sent.path, sent.branch, sent.content,
                                         sent.sha)
           q == Called(req[r], Call("createOrUpdateFileContents", sent, response))
       IN /\ req' = [req EXCEPT ![r] =
               IF response.ok
               THEN Reply(q, 200, [result |->
                      [success |-> TRUE, commit |-> response.commit.sha,
                       content |-> response.content]])
               ELSE Reply(q, 200, [result |-> [error |-> response.message]])]
          /\ faults' = FaultsAfter(fault)
          /\ IF response.ok
             THEN /\ commits' = PutCommits(sent.path, sent.branch, sent.content)
                  /\ refs' = PutRefs(sent.branch)
                  /\ writes' = writes + 1
             ELSE UNCHANGED <<commits, refs, writes>>
  /\ UNCHANGED <<defaultBranch, pulls, extWrites, sseVars, procVars>>

\* ExecSourceBranch with the default branch taken to be "main".
ExecSourceBranch_Main(from_branch, repo) ==
  OrElse(from_branch, "main")

\* const fromBranch = args.from_branch || repo.data.default_branch
ExecSourceBranch(from_branch, repo) ==
  OrElse(from_branch, repo.default_branch)

\* POST /execute, case 'create_branch': the repository read.
ExecCreateBranchGetRepo ==
  /\ main = "listening"
  /\ Len(req) < MaxReq
  /\ \E branch \in BranchNames, from_branch \in FromBranches,
        fault \in FaultChoices :
       LET repo == IF fault THEN Fault ELSE UpGetRepo
           q == Called(NewReq("execute", "create_branch", TRUE,
                              [NoArgs EXCEPT !.branch = branch,
                                             !.from_branch = from_branch]),
                       Call("get", [owner |-> OWNER, repo |-> REPO], repo))
       IN /\ req' = Append(req,
               IF repo.ok
               THEN [q EXCEPT !.pc = "getRef",
                              !.fromBranch = ExecSourceBranch(from_branch,
                                                              repo)]
               ELSE Reply(q, 200, [result |-> [error |-> repo.message]]))
          /\ faults' = FaultsAfter(fault)
  /\ UNCHANGED <<upstreamVars, extWrites, sseVars, procVars>>

\* ExecCreateBranchGetRef with one retry of a failed read.
ExecCreateBranchGetRef_Retry(r) ==
  /\ req[r].adapter = "execute" /\ req[r].pc = "getRef"
  /\ \E fault \in FaultChoices :
       LET sent == [ref |-> "heads/" \o req[r].fromBranch]
           ref == IF fault THEN Fault ELSE UpGetRef(sent.ref)
           q == Called(req[r], Call("getRef", sent, ref))
       IN /\ req' = [req EXCEPT ![r] =
               IF ref.ok
               THEN [q EXCEPT !.pc = "createRef", !.refSha = ref.object.sha]
               ELSE IF Len(q.calls) < 3 THEN q
               ELSE Reply(q, 200, [result |-> [error |-> ref.message]])]
          /\ faults' = FaultsAfter(fault)
  /\ UNCHANGED <<upstreamVars, extWrites, sseVars, procVars>>

\* POST /execute, case 'create_branch': the read of the source branch's head.
ExecCreateBranchGetRef(r) ==
  /\ req[r].adapter = "execute" /\ req[r].pc = "getRef"
  /\ \E fault \in FaultChoices :
       LET sent == [ref |-> "heads/" \o req[r].fromBranch]
           ref == IF fault THEN Fault ELSE UpGetRef(sent.ref)
           q == Called(req[r], Call("getRef", sent, ref))
       IN /\ req' = [req EXCEPT ![r] =
               IF ref.ok
               THEN [q EXCEPT !.pc = "createRef", !.refSha = ref.object.sha]
               ELSE Reply(q, 200, [result |-> [error |-> ref.message]])]
          /\ faults' = FaultsAfter(fault)
  /\ UNCHANGED <<upstreamVars, extWrites, sseVars, procVars>>

\* POST /execute, case 'create_branch': the creation of the ref, and the
\* response.
ExecCreateBranchCreateRef(r) ==
  /\ req[r].adapter = "execute" /\ req[r].pc = "createRef"
  /\ \E fault \in FaultChoices :
       LET sent == [ref |-> "refs/heads/" \o req[r].args.branch,
                    sha |-> req[r].refSha]
           newBranch == IF fault THEN Fault ELSE UpCreateRef(sent.ref, sent.sha)
           q == Called(req[r], Call("createRef", sent, newBranch))
       IN /\ req' = [req EXCEPT ![r] =
               IF newBranch.ok
               THEN Reply(q, 200, [result |->
                      [success |-> TRUE, branch |-> req[r].args.branch,
                       sha |-> newBranch.object.sha]])
               ELSE Reply(q, 200, [result |-> [error |-> newBranch.message]])]
          /\ faults' = FaultsAfter(fault)
          /\ refs' = IF newBranch.ok THEN CreateRefRefs(sent.ref, sent.sha)
                     ELSE refs
  /\ UNCHANGED <<defaultBranch, commits, pulls, writes, extWrites, sseVars, procVars>>

\* POST /execute, case 'create_pull_request'
ExecCreatePullRequest ==
  /\ main = "listening"
  /\ Len(req) < MaxReq
  /\ \E head \in BranchNames, base \in BranchNames, body \in PullBodies,
        fault \in FaultChoices :
       LET sent == [title |-> "change", body |-> OrElse(body, ""),
                    head |-> head, base |-> base]
           pr == IF fault THEN Fault
                 ELSE UpCreatePull(sent.title, sent.body, sent.head, sent.base)
           q == Called(NewReq("execute", "create_pull_request", TRUE,
                              [NoArgs EXCEPT !.title = "change", !.body = body,
                                             !.head = head, !.base = base]),
                       Call("create", sent, pr))
       IN /\ req' = Append(req,
               IF pr.ok
               THEN Reply(q, 200, [result |->
                      [success |-> TRUE, number |-> pr.number,
                       url |-> pr.html_url, state |-> pr.state]])
               ELSE Reply(q, 200, [result |-> [error |-> pr.message]]))
          /\ faults' = FaultsAfter(fault)
          /\ pulls' = IF pr.ok THEN Append(pulls, [head |-> head, base |-> base])
                      ELSE pulls
  /\ UNCHANGED <<defaultBranch, refs, commits, writes, extWrites, sseVars, procVars>>

\* UnknownToolResult without the submitted name.
UnknownToolResult_NoName(tool) == [error |-> "Unknown tool"]

\* result = { error: `Unknown tool: ${tool}` }
UnknownToolResult(tool) == [error |-> "Unknown tool: " \o tool]

\* POST /execute, switch default: no upstream call.
ExecUnknownTool ==
  /\ main = "listening"
  /\ Len(req) < MaxReq
  /\ \E tool \in UnknownTools :
       req' = Append(req,
         Reply(NewReq("execute", tool, TRUE, NoArgs), 200,
               [result |-> UnknownToolResult(tool)]))
  /\ UNCHANGED <<upstreamVars, faults, extWrites, sseVars, procVars>>

\* POST /execute with a recognized tool and no `arguments` in the body: the
\* first read of a property of `args` throws a TypeError before any upstream
\* call.  list_repositories reads args.visibility outside any inner try; the
\* other four read args.owner inside theirs.
ExecNoArguments ==
  /\ main = "listening"
  /\ Len(req) < MaxReq
  /\ \E tool \in RecognizedTools :
       req' = Append(req,
         IF tool = "list_repositories"
         THEN Reply(NewReq("execute", tool, FALSE, NoArgs), 500,
                    [error |-> TypeErrorReading("visibility")])
         ELSE Reply(NewReq("execute", tool, FALSE, NoArgs), 200,
                    [result |-> [error |-> TypeErrorReading("owner")]]))
  /\ UNCHANGED <<upstreamVars, faults, extWrites, sseVars, procVars>>

(* ------------------------------ environment --------------------------- *)

\* Another client of the upstream commits new content for the file.
ExternalWrite ==
  /\ extWrites < MaxExternalWrites
  /\ \E b \in DOMAIN refs, c \in Contents :
       /\ commits' = Append(commits, [TreeOf(b) EXCEPT ![FilePath] = c])
       /\ refs' = [refs EXCEPT ![b] = Len(commits) + 1]
  /\ writes' = writes + 1
  /\ extWrites' = extWrites + 1
  /\ UNCHANGED <<defaultBranch, pulls, faults, req, sseVars, procVars>>

(* ------------------------ discovery and /sse -------------------------- *)

StringProp(d) == [type |-> "string", description |-> d]

\* The tools array of GET /metadata.
MetadataTools ==
  << [name |-> "list_repositories",
      description |-> "List all accessible repositories",
      inputSchema |-> [type |-> "object",
        properties |-> [visibility |-> [type |-> "string",
                          enum |-> <<"all", "public", "private">>,
                          description |-> "Filter by visibility"]]]],
     [name |-> "get_file",
      description |-> "Get file contents from a repository",
      inputSchema |-> [type |-> "object",
        properties |-> [owner |-> StringProp("Repository owner"),
                        repo |-> StringProp("Repository name"),
                        path |-> StringProp("File path"),
                        branch |-> StringProp("Branch name (optional)")],
        required |-> <<"owner", "repo", "path">>]],
     [name |-> "create_or_update_file",
      description |-> "Create or update a file in a repository",
      inputSchema |-> [type |-> "object",
        properties |-> [owner |-> StringProp("Repository owner"),
                        repo |-> StringProp("Repository name"),
                        path |-> StringProp("File path"),
                        content |-> StringProp("File content"),
                        message |-> StringProp("Commit message"),
                        branch |-> StringProp("Branch name (optional)")],
        required |-> <<"owner", "repo", "path", "content", "message">>]],
     [name |-> "create_branch",
      description |-> "Create a new branch",
      inputSchema |-> [type |-> "object",
        properties |-> [owner |-> StringProp("Repository owner"),
                        repo |-> StringProp("Repository name"),
                        branch |-> StringProp("New branch name"),
                        from_branch |-> StringProp("Source branch (optional)")],
        required |-> <<"owner", "repo", "branch">>]],
     [name |-> "create_pull_request",
      description |-> "Create a pull request",
      inputSchema |-> [type |-> "object",
        properties |-> [owner |-> StringProp("Repository owner"),
                        repo |-> StringProp("Repository name"),
                        title |-> StringProp("PR title"),
                        body |-> StringProp("PR description"),
                        head |-> StringProp("Source branch"),
                        base |-> StringProp("Target branch")],
        required |-> <<"owner", "repo", "title", "head", "base">>]] >>

\* The tools array of the metadata event of GET /sse.
SseTools ==
  << [name |-> "list_repositories",
      description |-> "List all accessible repositories",
      inputSchema |-> [type |-> "object",
        properties |-> [visibility |-> [type |-> "string",
                          enum |-> <<"all", "public", "private">>,
                          description |-> "Filter by visibility"]]]],
     [name |-> "get_file",
      description |-> "Get file contents from a repository",
      inputSchema |-> [type |-> "object",
        properties |-> [owner |-> StringProp("Repository owner"),
                        repo |-> StringProp("Repository name"),
                        path |-> StringProp("File path"),
                        branch |-> StringProp("Branch name (optional)")],
        required |-> <<"owner", "repo", "path">>]],
     [name |-> "create_or_update_file",
      description |-> "Create or update a file in a repository",
      inputSchema |-> [type |-> "object",
        properties |-> [owner |-> StringProp("Repository owner"),
                        repo |-> StringProp("Repository name"),
                        path |-> StringProp("File path"),
                        content |-> StringProp(
                          "File content (will be base64 encoded)"),
                        message |-> StringProp("Commit message"),
                        branch |-> StringProp(
                          "Branch name (optional, defaults to default branch)")],
        required |-> <<"owner", "repo", "path", "content", "message">>]],
     [name |-> "create_branch",
      description |-> "Create a new branch",
      inputSchema |-> [type |-> "object",
        properties |-> [owner |-> StringProp("Repository owner"),
                        repo |-> StringProp("Repository name"),
                        branch |-> StringProp("New branch name"),
                        from_branch |-> StringProp("Source branch (optional)")],
        required |-> <<"owner", "repo", "branch">>]],
     [name |-> "create_pull_request",
      description |-> "Create a pull request",
      inputSchema |-> [type |-> "object",
        properties |-> [owner |-> StringProp("Repository owner"),
                        repo |-> StringProp("Repository name"),
                        title |-> StringProp("PR title"),
                        body |-> StringProp("PR description"),
                        head |-> StringProp("Source branch"),
                        base |-> StringProp("Target branch")],
        required |-> <<"owner", "repo", "title", "head", "base">>]] >>

\* The Host headers of the requests for the plugin manifest.
Hosts == {"gateway.example"}

\* GET /metadata
GetMetadata ==
  /\ main = "listening"
  /\ discovery' = discovery \cup
       {[endpoint |-> "/metadata", status |-> 200,
         body |-> [name |-> "github-mcp-server", version |-> "1.0.0",
                   description |-> "GitHub operations with read/write access",
                   protocol |-> "http", tools |-> MetadataTools]]}
  /\ UNCHANGED <<procVars, repoVars, conns, clock>>

\* GET /.well-known/ai-plugin.json
GetPluginManifest ==
  /\ main = "listening"
  /\ \E host \in Hosts :
       discovery' = discovery \cup
         {[endpoint |-> "/.well-known/ai-plugin.json", status |-> 200,
           body |-> [schema_version |-> "v1",
                     name_for_human |-> "GitHub Manager",
                     name_for_model |-> "github",
                     description_for_human |-> "Manage GitHub repositories: read/write files, create branches, and PRs",
                     description_for_model |-> "Plugin for GitHub operations including listing repositories, reading/writing files, creating branches and pull requests.",
                     auth |-> [type |-> "none"],
                     api |-> [type |-> "openapi",
                              url |-> "https://" \o host \o "/openapi.json"],
                     logo_url |-> "https://github.githubassets.com/images/modules/logos_page/GitHub-Mark.png",
                     contact_email |-> "support@example.com",
                     legal_info_url |-> "https://example.com/legal"]]}
  /\ UNCHANGED <<procVars, repoVars, conns, clock>>

\* setInterval(..., 30000), in units of 1000 ms.
KeepAliveInterval == 30

\* GET /sse: the handler writes the metadata event, starts the keep-alive
\* timer and registers the close listener, all in one turn.
SseOpen ==
  /\ main = "listening"
  /\ Len(conns) < MaxConn
  /\ conns' = Append(conns,
       [connected |-> TRUE,
        stream |-> <<[at |-> clock, data |-> [type |-> "metadata",
                       metadata |-> [name |-> "github-mcp-server",
                         version |-> "1.0.0",
                         description |-> "GitHub operations with read/write access",
                         tools |-> SseTools]]]>>,
        keepAlive |-> [active |-> TRUE, due |-> clock + KeepAliveInterval],
        openedAt |-> clock, closedAt |-> Undefined, lengthAtClose |-> 0])
  /\ UNCHANGED <<procVars, repoVars, discovery, clock>>

\* The keep-alive timer's callback: one comment line on the stream.
KeepAliveFire(i) ==
  /\ conns[i].keepAlive.active
  /\ clock >= conns[i].keepAlive.due
  /\ conns' = [conns EXCEPT ![i] =
       [@ EXCEPT !.stream = Append(@, [at |-> clock, comment |-> "keepalive"]),
                 !.keepAlive = [active |-> TRUE,
                                due |-> clock + KeepAliveInterval]]]
  /\ UNCHANGED <<procVars, repoVars, discovery, clock>>

\* SseClose without the clearInterval.
SseClose_NoClear(i) ==
  /\ conns[i].connected
  /\ conns' = [conns EXCEPT ![i] =
       [@ EXCEPT !.connected = FALSE,
                 !.closedAt = clock,
                 !.lengthAtClose = Len(conns[i].stream)]]
  /\ UNCHANGED <<procVars, repoVars, discovery, clock>>

\* req.on('close'): the client has disconnected; the timer is cleared.
SseClose(i) ==
  /\ conns[i].connected
  /\ conns' = [conns EXCEPT ![i] =
       [@ EXCEPT !.connected = FALSE,
                 !.closedAt = clock,
                 !.lengthAtClose = Len(conns[i].stream),
                 !.keepAlive = [active |-> FALSE, due |-> @.due]]]
  /\ UNCHANGED <<procVars, repoVars, discovery, clock>>

\* Time passes; a timer that is due runs before the clock is looked at again.
Tick ==
  /\ clock + TickStep <= MaxClock
  /\ \A i \in 1..Len(conns) :
       conns[i].keepAlive.active => clock < conns[i].keepAlive.due
  /\ clock' = clock + TickStep
  /\ UNCHANGED <<procVars, repoVars, discovery, conns>>

(* --------------------------- specification ---------------------------- *)

\* The upstream holds one repository with its default branch and one commit,
\* in which the file exists or not; the gateway has received nothing.
InitRepo ==
  /\ defaultBranch \in BranchNames
  /\ refs = (defaultBranch :> 1)
  /\ \E c \in {"A", Absent} : commits = <<[p \in {FilePath} |-> c]>>
  /\ pulls = <<>>
  /\ writes = 0
  /\ faults = 0
  /\ extWrites = 0
  /\ req = <<>>

InitSse ==
  /\ discovery = {}
  /\ conns = <<>>
  /\ clock = 0

\* The process has just started.
InitProcess ==
  /\ GITHUB_TOKEN \in Tokens
  /\ octokit = Undefined
  /\ main = "validate"

Init == InitRepo /\ InitSse /\ InitProcess

Next ==
  \/ ValidateEnvironment
  \/ CreateClient
  \/ Listen
  \/ RestListRepositories
  \/ RestGetFile
  \/ RestPutFileRead
  \/ RestPutFileNoContent
  \/ \E r \in 1..Len(req) : RestPutFileWrite(r)
  \/ RestCreateBranchGetRepo
  \/ \E r \in 1..Len(req) : RestCreateBranchGetRef(r)
  \/ \E r \in 1..Len(req) : RestCreateBranchCreateRef(r)
  \/ RestCreatePullRequest
  \/ ExecListRepositories
  \/ ExecGetFile
  \/ ExecPutFileRead
  \/ \E r \in 1..Len(req) : ExecPutFileWrite(r)
  \/ ExecCreateBranchGetRepo
  \/ \E r \in 1..Len(req) : ExecCreateBranchGetRef(r)
  \/ \E r \in 1..Len(req) : ExecCreateBranchCreateRef(r)
  \/ ExecCreatePullRequest
  \/ ExecUnknownTool
  \/ ExecNoArguments
  \/ ExternalWrite

Spec == Init /\ [][Next]_vars

NextDiscovery ==
  \/ ValidateEnvironment
  \/ CreateClient
  \/ Listen
  \/ GetMetadata
  \/ GetPluginManifest
  \/ SseOpen
  \/ \E i \in 1..Len(conns) : KeepAliveFire(i)
  \/ \E i \in 1..Len(conns) : SseClose(i)
  \/ Tick

SpecDiscovery == Init /\ [][NextDiscovery]_vars

(* ------------------------------- claims ------------------------------- *)

Requests == 1..Len(req)

Done(r) == req[r].pc = "done"

\* The payload of a response: the body, without /execute's {result: ...}.
PayloadOf(q) ==
  IF q.adapter = "execute" /\ DOMAIN q.body = {"result"}
  THEN q.body.result
  ELSE q.body

Payload(r) == PayloadOf(req[r])

IsPut(q) == q.tool = "create_or_update_file" /\ q.hasArgs

IsCreateBranch(q) == q.tool = "create_branch" /\ q.hasArgs

\* The payload of an accepted write w.
PutSuccess(w) ==
  [success |-> TRUE, commit |-> w.res.commit.sha, content |-> w.res.content]

\* The upstream calls of a request as the gateway saw them.
Exchange(r) ==
  [i \in 1..Len(req[r].calls) |->
     [op |-> req[r].calls[i].op, sent |-> req[r].calls[i].sent,
      res |-> req[r].calls[i].res]]

\* C1: every answered /execute request for one of the five recognized tools,
\* with its arguments object present, has status 200 and a body {result: ...},
\* whatever the upstream calls returned.
C1_ExecuteAlways200 ==
  \A r \in Requests :
    (Done(r) /\ req[r].adapter = "execute" /\ req[r].hasArgs
       /\ req[r].tool \in RecognizedTools)
    => (req[r].status = 200 /\ DOMAIN req[r].body = {"result"})

\* C2: a REST request and an /execute request for the same operation with the
\* same arguments, which got the same answers from the upstream, carry the
\* same payload.
C2_AdaptersAgree ==
  \A r1 \in Requests, r2 \in Requests :
    (Done(r1) /\ Done(r2)
       /\ req[r1].adapter = "rest" /\ req[r2].adapter = "execute"
       /\ req[r1].tool = req[r2].tool /\ req[r1].args = req[r2].args
       /\ req[r2].hasArgs /\ Exchange(r1) = Exchange(r2))
    => Payload(r1) = Payload(r2)

\* C6: an /execute request for a tool that is not one of the five is answered
\* 200 {result: {error: "Unknown tool: <name>"}} and issues no upstream call.
C6_UnknownTool ==
  \A r \in Requests :
    (req[r].adapter = "execute" /\ req[r].tool \notin RecognizedTools)
    => /\ Done(r)
       /\ req[r].status = 200
       /\ req[r].body = [result |-> [error |-> "Unknown tool: " \o req[r].tool]]
       /\ req[r].calls = <<>>

C6_Witness ==
  \E r \in Requests :
    /\ req[r].tool = "not_a_real_tool"
    /\ req[r].status = 200
    /\ req[r].body = [result |-> [error |-> "Unknown tool: not_a_real_tool"]]

\* C7: get_file on a path the upstream resolves to a directory is answered, on
\* both adapters, with the error "Path is a directory, not a file".
C7_DirectoryError ==
  \A r \in Requests :
    (Done(r) /\ req[r].tool = "get_file" /\ Len(req[r].calls) = 1
       /\ req[r].calls[1].res.ok /\ req[r].calls[1].res.isArray)
    => Payload(r) = [error |-> "Path is a directory, not a file"]

\* C4: when the existence read of create_or_update_file finds no file at the
\* path (404 Not Found on an existing branch), the failure is swallowed: the
\* request goes on to the write, the write carries no sha, and, the path still
\* being free and the upstream not failing for a reason of its own, the
\* request ends 200 with {success: true, commit, content}.
C4_CreateOnMissingPath ==
  \A r \in Requests :
    (IsPut(req[r]) /\ req[r].calls[1].res = Failure(404, "Not Found"))
    => /\ req[r].sha = Undefined
       /\ req[r].pc = "write" \/ Len(req[r].calls) = 2
       /\ Len(req[r].calls) = 2 =>
            LET w == req[r].calls[2] IN
            /\ w.op = "createOrUpdateFileContents"
            /\ w.sent.sha = Undefined
            /\ (w.stored = Undefined /\ w.res # Fault)
                 => /\ w.res.ok
                    /\ Done(r) /\ req[r].status = 200
                    /\ Payload(r) = PutSuccess(w)

C4_Witness ==
  \E r \in Requests :
    /\ IsPut(req[r]) /\ Done(r)
    /\ req[r].calls[1].res = Failure(404, "Not Found")
    /\ req[r].calls[2].sent.sha = Undefined
    /\ req[r].calls[2].res.ok
    /\ Payload(r) = PutSuccess(req[r].calls[2])

\* C5: a successful get_file g, then a create_or_update_file u of the same
\* path and branch, with no write accepted by the upstream in between and no
\* upstream fault: u's existence read yields the sha g returned, u's write
\* carries that sha, and the upstream accepts it, so u ends with success.
C5_ReadThenWrite ==
  \A g \in Requests, u \in Requests :
    (/\ g < u /\ Done(g)
     /\ req[g].tool = "get_file" /\ req[g].hasArgs
     /\ "sha" \in DOMAIN Payload(g)
     /\ IsPut(req[u])
     /\ req[u].args.path = req[g].args.path
     /\ req[u].args.branch = req[g].args.branch
     /\ req[u].calls[1].res # Fault
     /\ req[u].calls[1].epoch = req[g].calls[1].epoch)
    => /\ req[u].sha = Payload(g).sha
       /\ Len(req[u].calls) = 2 =>
            LET w == req[u].calls[2] IN
            /\ w.sent.sha = Payload(g).sha
            /\ (w.res # Fault /\ w.epoch = req[g].calls[1].epoch)
                 => /\ w.res.ok
                    /\ Done(u) /\ req[u].status = 200
                    /\ Payload(u) = PutSuccess(w)

C5_Witness ==
  \E g \in Requests, u \in Requests :
    /\ g < u /\ Done(g) /\ Done(u)
    /\ req[g].tool = "get_file" /\ req[g].hasArgs
    /\ "sha" \in DOMAIN Payload(g)
    /\ IsPut(req[u])
    /\ req[u].args.path = req[g].args.path
    /\ req[u].args.branch = req[g].args.branch
    /\ req[u].args.content = Payload(g).content
    /\ req[u].calls[2].epoch = req[g].calls[1].epoch
    /\ req[u].calls[2].sent.sha = Payload(g).sha
    /\ Payload(u) = PutSuccess(req[u].calls[2])

\* C3: when the revision stored at the path at the time of the write is not
\* the one that was stored at the time of the existence read (another writer
\* has updated the file in between), the upstream rejects the write, the store
\* keeps that other writer's revision, the request ends with
\* {error: <the upstream's message>} after exactly one read and one write, and
\* an ended request issues nothing more.
C3_WriteStep(r) ==
  LET w == req'[r].calls[2] IN
  (/\ IsPut(req[r]) /\ req[r].pc = "write" /\ req'[r] # req[r]
   /\ w.stored # Undefined
   /\ w.stored # req[r].calls[1].stored)
  => /\ ~w.res.ok
     /\ req'[r].pc = "done"
     /\ Len(req'[r].calls) = 2
     /\ PayloadOf(req'[r]) = [error |-> w.res.message]
     /\ refs' = refs /\ commits' = commits

\* C3, over every step: a write that finds another writer's revision stored is
\* rejected and not retried; an ended request issues nothing more.
C3_ConflictNotRetried ==
  [][\A r \in Requests :
       /\ C3_WriteStep(r)
       /\ req[r].pc = "done" => req'[r] = req[r]]_vars

C3_Witness ==
  \E r \in Requests :
    /\ IsPut(req[r]) /\ Done(r)
    /\ Len(req[r].calls) = 2
    /\ req[r].calls[1].res.ok
    /\ req[r].calls[2].stored # Undefined
    /\ req[r].calls[2].stored # req[r].calls[1].stored
    /\ req[r].calls[2].res.status = 409
    /\ Payload(r) = [error |-> req[r].calls[2].res.message]
    /\ StoredSha(req[r].args.path, req[r].args.branch) = req[r].calls[2].stored

\* C8: create_branch reads the repository, then the head of the source
\* branch, which is from_branch when given (a non-empty string) and the
\* repository's default branch otherwise, then creates refs/heads/<branch> at
\* exactly the commit it read; on success it answers
\* {success: true, branch, sha} with that commit.
C8_CreateBranchSource ==
  \A r \in Requests :
    IsCreateBranch(req[r]) =>
      LET c == req[r].calls
          a == req[r].args
      IN /\ c[1].op = "get"
         /\ Len(c) >= 2 =>
              /\ c[1].res.ok
              /\ c[2].op = "getRef"
              /\ c[2].sent.ref = "heads/" \o
                   (IF a.from_branch \in {Undefined, ""}
                    THEN c[1].res.default_branch ELSE a.from_branch)
         /\ Len(c) >= 3 =>
              /\ c[2].res.ok
              /\ c[3].op = "createRef"
              /\ c[3].sent = [ref |-> "refs/heads/" \o a.branch,
                              sha |-> c[2].res.object.sha]
         /\ (Len(c) = 3 /\ c[3].res.ok) =>
              /\ Done(r) /\ req[r].status = 200
              /\ Payload(r) = [success |-> TRUE, branch |-> a.branch,
                               sha |-> c[2].res.object.sha]
              /\ a.branch \in DOMAIN refs

C8_Witness ==
  \E r \in Requests :
    /\ IsCreateBranch(req[r]) /\ Done(r)
    /\ req[r].args.from_branch = Undefined
    /\ defaultBranch = "dev"
    /\ Len(req[r].calls) = 3
    /\ req[r].calls[2].sent.ref = "heads/dev"
    /\ Payload(r) = [success |-> TRUE, branch |-> "main",
                     sha |-> req[r].calls[2].res.object.sha]
    /\ "main" \in DOMAIN refs

\* C9: on every /sse connection the first write is the metadata event, every
\* later write is a keep-alive comment written at least one interval after the
\* write before it; while the client is connected the timer is pending, due
\* one interval after the last write; once the client has disconnected the
\* timer is cleared and nothing more is written.
IsKeepAlive(e) == DOMAIN e = {"at", "comment"} /\ e.comment = "keepalive"

C9_SseKeepAlive ==
  \A i \in 1..Len(conns) :
    LET c == conns[i]
        n == Len(c.stream)
    IN /\ n >= 1
       /\ DOMAIN c.stream[1] = {"at", "data"}
       /\ c.stream[1].data.type = "metadata"
       /\ c.stream[1].at = c.openedAt
       /\ \A k \in 2..n :
            /\ IsKeepAlive(c.stream[k])
            /\ c.stream[k].at >= c.stream[k - 1].at + KeepAliveInterval
       /\ c.connected =>
            /\ c.keepAlive.active
            /\ c.keepAlive.due = c.stream[n].at + KeepAliveInterval
            /\ clock < c.keepAlive.due + TickStep
       /\ ~c.connected =>
            /\ ~c.keepAlive.active
            /\ n = c.lengthAtClose
            /\ \A k \in 1..n : c.stream[k].at <= c.closedAt

C9_Witness ==
  \E i \in 1..Len(conns), j \in 1..Len(conns) :
    /\ ~conns[i].connected
    /\ Len(conns[i].stream) >= 2
    /\ clock >= conns[i].closedAt + KeepAliveInterval
    /\ conns[j].connected
    /\ conns[j].openedAt < conns[i].closedAt
    /\ Len(conns[j].stream) >= 3

\* C10: the tools array served by GET /metadata and the tools array of the
\* metadata event of every /sse connection are the same descriptors.
C10_DescriptorsIdentical ==
  \A d \in discovery, i \in 1..Len(conns) :
    d.endpoint = "/metadata" =>
      d.body.tools = conns[i].stream[1].data.metadata.tools

\* The upstream calls of a request that failed.
FailedCalls(q) == {i \in 1..Len(q.calls) : ~q.calls[i].res.ok}

\* C11: an answered REST request has status 200, 400 or 500; 500 comes with
\* a body {error: message} whose message is that of an upstream call of the
\* request that failed, and 400 only from get_file on a path the upstream
\* resolved to a directory.
C11_RestStatus ==
  \A r \in Requests :
    (Done(r) /\ req[r].adapter = "rest")
    => /\ req[r].status \in {200, 400, 500}
       /\ req[r].status = 500
            => /\ DOMAIN req[r].body = {"error"}
               /\ \E i \in FailedCalls(req[r]) :
                    req[r].body.error = req[r].calls[i].res.message
       /\ req[r].status = 400
            => /\ req[r].tool = "get_file"
               /\ Len(req[r].calls) = 1
               /\ req[r].calls[1].res.ok /\ req[r].calls[1].res.isArray

\* C12: when GITHUB_TOKEN is absent (undefined or empty) the process never
\* gets past the validation: it creates no upstream client, never listens
\* and serves no request, connection or discovery response.
C12_NoCredentialNoServer ==
  Falsy(GITHUB_TOKEN)
  => /\ main \in {"validate", "exited"}
     /\ octokit = Undefined
     /\ req = <<>> /\ conns = <<>> /\ discovery = {}

\* The process has exited for want of a token.
C12_Witness ==
  /\ Falsy(GITHUB_TOKEN)
  /\ main = "exited"

\* The upstream calls of each operation, in the order of its handler.
CallOrder(tool) ==
  CASE tool = "list_repositories" -> <<"listForAuthenticatedUser">>
    [] tool = "get_file" -> <<"getContent">>
    [] tool = "create_or_update_file" ->
         <<"getContent", "createOrUpdateFileContents">>
    [] tool = "create_branch" -> <<"get", "getRef", "createRef">>
    [] tool = "create_pull_request" -> <<"create">>
    [] OTHER -> <<>>

Ops(q) == [i \in 1..Len(q.calls) |-> q.calls[i].op]

IsPrefix(s, t) == Len(s) <= Len(t) /\ \A i \in 1..Len(s) : s[i] = t[i]

\* The one call whose failure the handlers swallow: the existence read of
\* create_or_update_file.
IsExistenceRead(q, i) == q.tool = "create_or_update_file" /\ i = 1

\* C13: the calls a request has issued are an initial part of its operation's
\* fixed sequence, each at most once; a failed call other than the existence
\* read of create_or_update_file is the request's last call and its message
\* is the request's answer; create_branch creates a ref only after both of
\* its reads succeeded.
C13_NoRetry ==
  \A r \in Requests :
    LET q == req[r] IN
      /\ IsPrefix(Ops(q), CallOrder(q.tool))
      /\ \A i \in FailedCalls(q) :
           ~IsExistenceRead(q, i)
           => /\ i = Len(q.calls)
              /\ q.pc = "done"
              /\ PayloadOf(q) = [error |-> q.calls[i].res.message]
      /\ (q.tool = "create_branch" /\ Len(q.calls) = 3)
           => (q.calls[1].res.ok /\ q.calls[2].res.ok)

\* A create_branch request has ended on the failure of its source-ref read,
\* and a create_or_update_file request on the failure of its write.
C13_Witness ==
  /\ \E r \in Requests :
       /\ IsCreateBranch(req[r]) /\ Done(r)
       /\ Len(req[r].calls) = 2 /\ ~req[r].calls[2].res.ok
  /\ \E r \in Requests :
       /\ IsPut(req[r]) /\ Done(r)
       /\ Len(req[r].calls) = 2 /\ ~req[r].calls[2].res.ok

\* C14: no update is lost.  A create_or_update_file write that the upstream
\* accepts while the file exists carries, and replaces, exactly the revision
\* the request's own existence read returned.  When the existence read
\* failed, for whatever cause, the request goes on to issue the write once,
\* without a revision token, and the upstream accepts it only if the file
\* does not exist at that time.
C14_NoLostUpdate ==
  \A r \in Requests :
    LET q == req[r] IN
    IsPut(q)
    => /\ Len(q.calls) = 2
            => LET c == q.calls[1]
                   w == q.calls[2]
               IN /\ (w.res.ok /\ w.stored # Undefined)
                       => /\ c.res.ok /\ ~c.res.isArray
                          /\ w.sent.sha = c.res.sha
                          /\ w.stored = c.res.sha
                  /\ ~c.res.ok
                       => /\ w.sent.sha = Undefined
                          /\ w.res.ok => w.stored = Undefined
       /\ ~q.calls[1].res.ok
            => \/ q.pc = "write" /\ Len(q.calls) = 1
               \/ /\ q.pc = "done" /\ Len(q.calls) = 2
                  /\ q.calls[2].op = "createOrUpdateFileContents"

\* Two requests on the same path and branch, both past their existence read
\* before either wrote: one read the file and its write replaced the revision
\* it read; the other's read failed on an upstream fault, not a 404, and its
\* write, sent without a token, was rejected because the file exists.
C14_Witness ==
  \E r1 \in Requests, r2 \in Requests :
    /\ IsPut(req[r1]) /\ IsPut(req[r2]) /\ Done(r1) /\ Done(r2)
    /\ req[r1].args.path = req[r2].args.path
    /\ req[r1].args.branch = req[r2].args.branch
    /\ req[r1].calls[1].epoch = req[r2].calls[1].epoch
    /\ req[r1].calls[1].res.ok /\ ~req[r1].calls[1].res.isArray
    /\ req[r1].calls[2].res.ok
    /\ req[r1].calls[2].stored = req[r1].calls[1].res.sha
    /\ req[r2].calls[1].res = Fault
    /\ req[r2].calls[2].sent.sha = Undefined
    /\ req[r2].calls[2].stored # Undefined
    /\ ~req[r2].calls[2].res.ok


====
